---- MODULE Spec2Model ----
(***************************************************************************)
(* A model of Fix_BCD: the registry dump parser and serializer             *)
(* (registry_dict.py) and the UUID scanner, corrector, correction loop and *)
(* main (fix_boot_bcd.py).                                                 *)
(*                                                                         *)
(* Text is a sequence of one-character strings; a byte array is a sequence *)
(* of integers 0..255.  Python's 0-based index i is the TLA+ index i+1.    *)
(***************************************************************************)
EXTENDS Integers, Sequences, FiniteSets, TLC

VARIABLES
    \* scanner / corrector
    elem,       \* dct['Element']: the hex text of one locator Element
    sphase,     \* "input" | "scanned" | "corrected" | "idle"
    res,        \* result of find_part_disk(elem)
    oldElem,    \* elem before correct_uuid
    patch,      \* the (uuid, offs) arguments of correct_uuid
    \* reg_to_dict
    lines,      \* the dump file, one entry per line, line ends removed
    pos,        \* the number of lines read so far
    header,     \* header (None and "" are both the empty text)
    regdict,    \* the tree: its nodes in insertion order
    key,        \* the current sub-dictionary: [set |-> FALSE] is None
    curElem,    \* elem, the current leaf name (None and "" are both empty)
    pstat,      \* "parsing" | "parsed" | the exception raised | "idle"
    \* output_reg
    out,        \* the lines written so far
    cur,        \* the line being written (print with end='')
    todo,       \* what output_regsub has still to write, in its order
    val,        \* val of output_elem
    wrap,       \* wrap of output_elem
    opc,        \* "wait" | "regsub" | "elem" | "done" | "idle"
    \* list_and_correct_entries, main
    PartUUIDs,  \* the keys of the global PartUUIDs
    PartDisks,  \* the global PartDisks (None and "" are both the empty text)
    nochange,   \* -n
    ovwr_list,  \* -o
    args,       \* the hive files of the command line: the tree read from each
    argi,       \* the index of the file being processed
    regd,       \* the tree of the current file: its boot entries, in order
    ei,         \* the index of the boot entry the loop is at
    lpc,        \* "entry" | "disk" | "osdk" | "returned" | the exception | "idle"
    resp,       \* resp (None is the empty text)
    fixes,
    unfixed,
    run,        \* how often list_and_correct_entries was called on the tree
    calls,      \* what each call of the loop returned and left: [fixes, unfixed, regd]
    written,    \* the files bcd.write(True) was called for
    exit        \* the exit status of main, -1 while it runs

svars == <<elem, sphase, res, oldElem, patch>>
pvars == <<lines, pos, header, regdict, key, curElem, pstat>>
ovars == <<out, cur, todo, val, wrap, opc>>

tvars == <<PartUUIDs, PartDisks, nochange, ovwr_list, args>>
lvars == <<argi, regd, ei, lpc, resp, fixes, unfixed, run, calls, written, exit>>

vars == <<svars, pvars, ovars, tvars, lvars>>

-----------------------------------------------------------------------------
(* Text helpers *)

HexDigits == <<"0","1","2","3","4","5","6","7","8","9","a","b","c","d","e","f">>

\* Python slice s[a:b] for 0 <= a
Slice(s, a, b) == SubSeq(s, a + 1, IF b > Len(s) THEN Len(s) ELSE b)

\* Python slice s[a:]
From(s, a) == SubSeq(s, a + 1, Len(s))

\* str.find(c, start): the 0-based index of the first c at or after start, or -1
Find(s, c, start) ==
    IF \E i \in (start + 1)..Len(s) : s[i] = c
    THEN (CHOOSE i \in (start + 1)..Len(s) :
              s[i] = c /\ \A j \in (start + 1)..(i - 1) : s[j] # c) - 1
    ELSE -1

\* the 0-based index of the last c before index end, or -1
RFind(s, c, end) ==
    IF \E i \in 1..end : s[i] = c
    THEN (CHOOSE i \in 1..end : s[i] = c /\ \A j \in (i + 1)..end : s[j] # c) - 1
    ELSE -1

\* str.split(c): the text is cut at the c nearest to its middle and the two
\* sides are split in turn
RECURSIVE Split(_, _)
Split(s, c) ==
    LET mid == Len(s) \div 2
        i == Find(s, c, mid)
        j == IF i # -1 THEN i ELSE RFind(s, c, mid)
    IN  IF j = -1 THEN <<s>>
        ELSE Split(Slice(s, 0, j), c) \o Split(From(s, j + 1), c)

\* the value of one hex digit, -1 for any other character
HexVal(c) ==
    IF \E k \in 1..16 : HexDigits[k] = c
    THEN (CHOOSE k \in 1..16 : HexDigits[k] = c) - 1
    ELSE -1

\* int(x, 16); -1 stands for ValueError
RECURSIVE IntHex(_)
IntHex(x) ==
    IF Len(x) = 0 THEN -1
    ELSE IF HexVal(x[Len(x)]) = -1 THEN -1
    ELSE IF Len(x) = 1 THEN HexVal(x[1])
    ELSE LET hi == IntHex(SubSeq(x, 1, Len(x) - 1)) IN
         IF hi = -1 THEN -1 ELSE 16 * hi + HexVal(x[Len(x)])

\* f"{b:02x}"
Fmt02x(b) == <<HexDigits[(b \div 16) + 1], HexDigits[(b % 16) + 1]>>

-----------------------------------------------------------------------------
(* registry_dict.arr_from_hexstr *)

PrefixHex7 == <<"h","e","x","(","7",")",":">>
PrefixHex == <<"h","e","x",":">>

ArrFromHexstr(hexstr) ==
    LET body == IF Slice(hexstr, 0, 7) = PrefixHex7 THEN From(hexstr, 7)
                ELSE IF Slice(hexstr, 0, 4) = PrefixHex THEN From(hexstr, 4)
                ELSE <<"?">>
        parts == Split(body, ",")
        arr == [k \in 1..Len(parts) |-> IntHex(parts[k])]
    IN  IF \E k \in 1..Len(arr) : arr[k] = -1
        THEN [ok |-> FALSE, arr |-> <<>>]        \* ValueError
        ELSE [ok |-> TRUE, arr |-> arr]

-----------------------------------------------------------------------------
(* fix_boot_bcd.counts, uuidstr, find_part_disk *)

RECURSIVE CountIf(_, _, _)
CountIf(arr, lo, hi) ==
    IF Len(arr) = 0 THEN 0
    ELSE (IF lo <= arr[1] /\ arr[1] <= hi THEN 1 ELSE 0) + CountIf(Tail(arr), lo, hi)

Counts(arr) == [cntz |-> CountIf(arr, 0, 0), cnta |-> CountIf(arr, 32, 122)]

Dash == <<"-">>

uuidstr(h) ==
    Fmt02x(h[4]) \o Fmt02x(h[3]) \o Fmt02x(h[2]) \o Fmt02x(h[1]) \o Dash
    \o Fmt02x(h[6]) \o Fmt02x(h[5]) \o Dash
    \o Fmt02x(h[8]) \o Fmt02x(h[7]) \o Dash
    \o Fmt02x(h[9]) \o Fmt02x(h[10]) \o Dash
    \o Fmt02x(h[11]) \o Fmt02x(h[12]) \o Fmt02x(h[13]) \o Fmt02x(h[14])
    \o Fmt02x(h[15]) \o Fmt02x(h[16])

\* the candidate test, were a window with a zero byte rejected (cntz < 1)
IsCandidateNoZero(hexarr, idx) ==
    LET c == Counts(SubSeq(hexarr, idx + 1, idx + 16)) IN
    /\ c.cntz < 1
    /\ c.cnta <= 10
    /\ (Len(hexarr) = idx + 16 \/ hexarr[idx + 17] = 0)

\* the candidate test of find_part_disk (line 156)
IsCandidate(hexarr, idx) ==
    LET c == Counts(SubSeq(hexarr, idx + 1, idx + 16)) IN
    /\ c.cntz < 2
    /\ c.cnta <= 10
    /\ (Len(hexarr) = idx + 16 \/ hexarr[idx + 17] = 0)

\* while hexarr[idx] == 0: idx += 4.  -1 stands for the IndexError that
\* hexarr[idx] raises once idx reaches len(hexarr).
RECURSIVE SkipZero(_, _)
SkipZero(hexarr, idx) ==
    IF idx >= Len(hexarr) THEN -1
    ELSE IF hexarr[idx + 1] = 0 THEN SkipZero(hexarr, idx + 4)
    ELSE idx

\* the advance after a recorded UUID: idx += 16, then the loop's idx += 4
AfterHit(idx) == idx + 16 + 4

\* the outer while loop of find_part_disk
RECURSIVE ScanLoop(_, _, _, _)
ScanLoop(hexarr, idx, ids, offs) ==
    IF ~(Len(hexarr) >= idx + 16)
    THEN [st |-> "ok", ids |-> ids, offs |-> offs, idx |-> idx]
    ELSE LET i2 == SkipZero(hexarr, idx) IN
         IF i2 = -1
         THEN [st |-> "IndexError", ids |-> ids, offs |-> offs, idx |-> idx]
         ELSE IF Len(hexarr) < i2 + 16
         THEN [st |-> "ok", ids |-> ids, offs |-> offs, idx |-> i2]
         ELSE IF IsCandidate(hexarr, i2)
         THEN ScanLoop(hexarr, AfterHit(i2),
                       Append(ids, uuidstr(SubSeq(hexarr, i2 + 1, i2 + 16))),
                       Append(offs, i2))
         ELSE ScanLoop(hexarr, i2 + 4, ids, offs)

\* no scan yet
NoRes == [st |-> "none", ids |-> <<>>, offs |-> <<>>, idx |-> 0]

FindPartDisk(hexstr) ==
    LET a == ArrFromHexstr(hexstr) IN
    IF ~a.ok THEN [st |-> "ValueError", ids |-> <<>>, offs |-> <<>>, idx |-> 0]
    ELSE ScanLoop(a.arr, 32, <<>>, <<>>)

-----------------------------------------------------------------------------
(* fix_boot_bcd.uuid_bytes, correct_uuid *)

Comma == <<",">>

\* the bytes in the order of the text, were the first three fields not
\* reversed
uuid_bytesUnswapped(u) ==
    Slice(u, 0, 2) \o Comma \o Slice(u, 2, 4) \o Comma \o Slice(u, 4, 6) \o Comma
    \o Slice(u, 6, 8) \o Comma \o Slice(u, 9, 11) \o Comma \o Slice(u, 11, 13) \o Comma
    \o Slice(u, 14, 16) \o Comma \o Slice(u, 16, 18) \o Comma \o Slice(u, 19, 21) \o Comma
    \o Slice(u, 21, 23) \o Comma
    \o Slice(u, 24, 26) \o Comma \o Slice(u, 26, 28) \o Comma \o Slice(u, 28, 30) \o Comma
    \o Slice(u, 30, 32) \o Comma \o Slice(u, 32, 34) \o Comma \o Slice(u, 34, 36)

uuid_bytes(u) ==
    Slice(u, 6, 8) \o Comma \o Slice(u, 4, 6) \o Comma \o Slice(u, 2, 4) \o Comma
    \o Slice(u, 0, 2) \o Comma \o Slice(u, 11, 13) \o Comma \o Slice(u, 9, 11) \o Comma
    \o Slice(u, 16, 18) \o Comma \o Slice(u, 14, 16) \o Comma \o Slice(u, 19, 21) \o Comma
    \o Slice(u, 21, 23) \o Comma
    \o Slice(u, 24, 26) \o Comma \o Slice(u, 26, 28) \o Comma \o Slice(u, 28, 30) \o Comma
    \o Slice(u, 30, 32) \o Comma \o Slice(u, 32, 34) \o Comma \o Slice(u, 34, 36)

\* the index, were the colon itself not stepped over (ix += 3*offs)
PatchIndexOnColon(dstr, offs) == Find(dstr, ":", 0) + 3 * offs

\* the character index at which correct_uuid patches (lines 212-214)
PatchIndex(dstr, offs) == Find(dstr, ":", 0) + 3 * offs + 1

\* the new value, were the comma after the window cut out too (dstr[ix+48:])
CorrectUuidCut48(uuid, offs, dstr) ==
    LET ix == PatchIndex(dstr, offs) IN
    Slice(dstr, 0, ix) \o uuid_bytes(uuid) \o From(dstr, ix + 48)

\* the new dct['Element'] (line 215)
CorrectUuid(uuid, offs, dstr) ==
    LET ix == PatchIndex(dstr, offs) IN
    Slice(dstr, 0, ix) \o uuid_bytes(uuid) \o From(dstr, ix + 47)

-----------------------------------------------------------------------------
(* registry_dict.add_to_dict, reg_to_dict *)

BS == "\\"
QUOTE == "\""

\* ln[0] of a line as read from the file: an empty line is "\n"
First(ln) == IF Len(ln) = 0 THEN "\n" ELSE ln[1]

Last(ln) == ln[Len(ln)]

HasNode(nodes, path) == \E i \in 1..Len(nodes) : nodes[i].path = path

NodeAt(nodes, path) == nodes[CHOOSE i \in 1..Len(nodes) : nodes[i].path = path]

\* add_to_dict(regdict, key): every missing dictionary along the path is
\* created, in order.  (No input names a leaf in a key line.)
RECURSIVE AddToDict(_, _, _)
AddToDict(nodes, segs, n) ==
    IF n > Len(segs) THEN nodes
    ELSE LET p == SubSeq(segs, 1, n) IN
         IF HasNode(nodes, p) THEN AddToDict(nodes, segs, n + 1)
         ELSE AddToDict(Append(nodes, [path |-> p, leaf |-> FALSE, val |-> <<>>]),
                        segs, n + 1)

\* key[k] = val: an existing entry keeps its place in the dictionary
SetLeaf(nodes, path, v) ==
    IF HasNode(nodes, path)
    THEN [i \in 1..Len(nodes) |->
             IF nodes[i].path = path
             THEN [path |-> path, leaf |-> TRUE, val |-> v] ELSE nodes[i]]
    ELSE Append(nodes, [path |-> path, leaf |-> TRUE, val |-> v])

\* while ln[0] == "\\": ln = ln[1:]
RECURSIVE StripBS(_)
StripBS(ln) == IF Len(ln) > 0 /\ ln[1] = BS THEN StripBS(Tail(ln)) ELSE ln

\* k.replace('"', '')
RECURSIVE Unquote(_)
Unquote(k) ==
    IF Len(k) = 0 THEN <<>>
    ELSE (IF k[1] = QUOTE THEN <<>> ELSE <<k[1]>>) \o Unquote(Tail(k))

NoKey == [set |-> FALSE, path |-> <<>>]

\* one pass of the for loop of reg_to_dict over the line ln; st holds the
\* local variables header, regdict, key, elem and the exception, if any
ParseStep(st, ln) ==
    IF First(ln) # "[" /\ ~st.key.set
    THEN \* lines 69-72
         IF Len(st.header) = 0 THEN [st EXCEPT !.header = ln] ELSE st
    ELSE IF Len(ln) = 0
    THEN \* lines 76-79
         [st EXCEPT !.key = NoKey, !.elem = <<>>]
    ELSE IF ln[1] = "["
    THEN \* lines 80-88
         IF Last(ln) # "]" THEN [st EXCEPT !.pstat = "AssertionError"]
         ELSE LET inner == SubSeq(ln, 2, Len(ln) - 1) IN
              IF inner = <<BS>> THEN st
              ELSE IF Len(StripBS(inner)) = 0 THEN [st EXCEPT !.pstat = "IndexError"]
              ELSE LET segs == Split(StripBS(inner), BS) IN
                   [st EXCEPT !.regdict = AddToDict(st.regdict, segs, 1),
                              !.key = [set |-> TRUE, path |-> segs]]
    ELSE IF ln[1] = QUOTE
    THEN \* lines 90-98
         IF ~st.key.set THEN [st EXCEPT !.pstat = "AssertionError"]
         ELSE LET parts == Split(ln, "=") IN
              IF Len(parts) # 2 THEN [st EXCEPT !.pstat = "ValueError"]
              ELSE IF Len(parts[2]) = 0 THEN [st EXCEPT !.pstat = "IndexError"]
              ELSE LET v == IF Last(parts[2]) = BS
                            THEN SubSeq(parts[2], 1, Len(parts[2]) - 1)
                            ELSE parts[2]
                       k == Unquote(parts[1])
                   IN  [st EXCEPT !.regdict = SetLeaf(st.regdict, Append(st.key.path, k), v),
                                  !.elem = k]
    ELSE IF Slice(ln, 0, 2) = <<" ", " ">>
    THEN \* lines 100-105
         IF Len(st.elem) = 0 THEN [st EXCEPT !.pstat = "AssertionError"]
         ELSE IF Len(ln) = 2 THEN [st EXCEPT !.pstat = "IndexError"]
         ELSE LET rest == From(ln, 2)
                  add == IF Last(rest) = BS THEN SubSeq(rest, 1, Len(rest) - 1) ELSE rest
                  path == Append(st.key.path, st.elem)
              IN  IF ~HasNode(st.regdict, path) THEN [st EXCEPT !.pstat = "KeyError"]
                  ELSE IF ~NodeAt(st.regdict, path).leaf
                  THEN [st EXCEPT !.pstat = "TypeError"]
                  ELSE [st EXCEPT !.regdict =
                            SetLeaf(st.regdict, path, NodeAt(st.regdict, path).val \o add)]
    ELSE st

\* the body of the for loop, for the next line of the file
ParseLine ==
    /\ pstat = "parsing"
    /\ pos < Len(lines)
    /\ LET st == ParseStep([header |-> header, regdict |-> regdict, key |-> key,
                            elem |-> curElem, pstat |-> pstat], lines[pos + 1])
       IN  /\ header' = st.header
           /\ regdict' = st.regdict
           /\ key' = st.key
           /\ curElem' = st.elem
           /\ pstat' = st.pstat
    /\ pos' = pos + 1
    /\ UNCHANGED <<lines, svars, ovars, tvars, lvars>>

\* return (regdict, header)
ReturnTree ==
    /\ pstat = "parsing"
    /\ pos = Len(lines)
    /\ pstat' = "parsed"
    /\ UNCHANGED <<lines, pos, header, regdict, key, curElem, svars, ovars, tvars, lvars>>

-----------------------------------------------------------------------------
(* registry_dict.output_elem, output_regsub, output_reg *)

WrapFirst == 66
WrapNext == 76
MaxOutLines == 14       \* output_elem stops writing at this many lines

\* print(...) into a file of which out are the finished lines and cur the
\* unfinished one: frags are the pieces of the text between its "\n"s, and
\* nl tells whether print ends the line (end='\n')
Write(o, frags, nl) ==
    LET n == Len(frags)
        done == [k \in 1..(n - 1) |-> IF k = 1 THEN o.cur \o frags[1] ELSE frags[k]]
        last == IF n = 1 THEN o.cur \o frags[1] ELSE frags[n]
    IN  IF nl THEN [out |-> o.out \o done \o <<last>>, cur |-> <<>>]
        ELSE [out |-> o.out \o done, cur |-> last]

\* what output_regsub(regd, f, pre) writes for the dictionary at path p, in
\* its order: a key line for a sub-dictionary, followed by its content, and
\* the name and value of a leaf
RECURSIVE Regsub(_, _, _, _)
Regsub(nodes, p, pre, i) ==
    IF i > Len(nodes) THEN <<>>
    ELSE LET n == nodes[i] IN
         IF Len(n.path) = Len(p) + 1 /\ SubSeq(n.path, 1, Len(p)) = p
         THEN LET name == n.path[Len(n.path)] IN
              (IF n.leaf
               THEN <<[kind |-> "leaf", text |-> <<QUOTE>> \o name \o <<QUOTE, "=">>,
                       val |-> n.val]>>
               ELSE <<[kind |-> "branch", text |-> <<"[">> \o pre \o <<BS>> \o name \o <<"]">>,
                       val |-> <<>>]>>
                    \o Regsub(nodes, n.path, pre \o <<BS>> \o name, 1))
              \o Regsub(nodes, p, pre, i + 1)
         ELSE Regsub(nodes, p, pre, i + 1)

\* output_reg up to the call of output_regsub
OutputReg ==
    /\ pstat = "parsed"
    /\ opc = "wait"
    /\ LET o1 == IF Len(header) > 0
                 THEN Write([out |-> out, cur |-> cur], <<header, <<>>>>, TRUE)
                 ELSE [out |-> out, cur |-> cur]
           o2 == Write(o1, <<<<"[", BS, "]">>>>, TRUE)
       IN  /\ out' = o2.out
           /\ cur' = o2.cur
    /\ todo' = Regsub(regdict, <<>>, <<BS>>, 1)
    /\ opc' = "regsub"
    /\ UNCHANGED <<val, wrap, svars, pvars, tvars, lvars>>

\* one pass of the for loop of output_regsub, up to the call of output_elem
OutputRegsub ==
    /\ opc = "regsub"
    /\ todo # <<>>
    /\ LET it == Head(todo)
           o2 == IF it.kind = "branch"
                 THEN Write([out |-> out, cur |-> cur], <<<<>>, it.text>>, TRUE)
                 ELSE Write([out |-> out, cur |-> cur], <<it.text>>, FALSE)
       IN  /\ out' = o2.out
           /\ cur' = o2.cur
           /\ opc' = IF it.kind = "branch" THEN "regsub" ELSE "elem"
           /\ val' = IF it.kind = "branch" THEN val ELSE it.val
           /\ wrap' = IF it.kind = "branch" THEN wrap ELSE WrapFirst
    /\ todo' = Tail(todo)
    /\ UNCHANGED <<svars, pvars, tvars, lvars>>

\* one pass of the while loop of output_elem
OutputElemStep ==
    /\ opc = "elem"
    /\ Len(out) < MaxOutLines
    /\ IF Len(val) = 0
       THEN /\ opc' = "regsub"
            /\ UNCHANGED <<out, cur, val, wrap>>
       ELSE IF Len(val) <= wrap
       THEN LET o2 == Write([out |-> out, cur |-> cur], <<val>>, TRUE) IN
            /\ out' = o2.out
            /\ cur' = o2.cur
            /\ opc' = "regsub"
            /\ UNCHANGED <<val, wrap>>
       ELSE LET idx == Find(val, ",", wrap - 2)
                o2 == Write([out |-> out, cur |-> cur],
                            <<Slice(val, 0, idx + 1) \o <<BS>>, <<" ", " ">>>>, FALSE)
            IN  /\ out' = o2.out
                /\ cur' = o2.cur
                /\ wrap' = WrapNext
                /\ val' = From(val, idx + 1)
                /\ opc' = "elem"
    /\ UNCHANGED <<todo, svars, pvars, tvars, lvars>>

\* the last print of output_reg
OutputDone ==
    /\ opc = "regsub"
    /\ todo = <<>>
    /\ LET o2 == Write([out |-> out, cur |-> cur], <<<<>>>>, TRUE) IN
       /\ out' = o2.out
       /\ cur' = o2.cur
    /\ opc' = "done"
    /\ UNCHANGED <<todo, val, wrap, svars, pvars, tvars, lvars>>

-----------------------------------------------------------------------------
(* fix_boot_bcd.select_uuid, list_and_correct_entries, main *)

\* A boot entry is [desc, disk, osdk]: whether the object has a description
\* Element, and the values of its Elements 11000001 and 21000001, the empty
\* text where the key is not in elms.

None == <<>>

\* what select_uuid can return or raise: None (an empty answer), a key of
\* PartUUIDs (the answer is one, or the device name of one), or the
\* TypeError of ans.split[","] (the answer holds a comma)
CommaAnswer == <<",">>
Answers == {None, CommaAnswer} \cup PartUUIDs

KnownDisk(p) == p \in DOMAIN PartDisks /\ PartDisks[p] # None

\* whether the pass over an Element that scans to r calls select_uuid
\* (lines 245-252)
Asks(r, rsp) ==
    /\ r.st = "ok"
    /\ Len(r.ids) = 2
    /\ r.ids[1] \notin PartUUIDs \/ r.ids[1] \in ovwr_list
    /\ rsp = None /\ ~nochange

\* the outcome of one pass of the loop over (disk_key, osdk_key) for the
\* Element value e that scans to r, given the answer ans of select_uuid
\* where it is called: the new value, resp and counters, and the exception
\* raised, if any
KeyStep(e, r, rsp, fx, ufx, ans) ==
    LET same == [e |-> e, resp |-> rsp, fixes |-> fx, unfixed |-> ufx, exc |-> "none"]
    IN
    IF r.st # "ok" THEN [same EXCEPT !.exc = r.st]
    ELSE IF Len(r.ids) # 2 THEN [same EXCEPT !.unfixed = ufx + 1]
    ELSE IF r.ids[1] \notin PartUUIDs \/ r.ids[1] \in ovwr_list
    THEN \* lines 250-262
         LET asked == rsp = None /\ ~nochange
             rsp1 == IF asked THEN ans ELSE rsp
         IN
         IF asked /\ ans = CommaAnswer THEN [same EXCEPT !.exc = "TypeError"]
         ELSE IF rsp1 = None \/ nochange
         THEN [same EXCEPT !.resp = rsp1, !.unfixed = ufx + 1]
         ELSE LET e1 == CorrectUuid(rsp1, r.offs[1], e) IN
              IF rsp1 \notin DOMAIN PartDisks
              THEN [same EXCEPT !.e = e1, !.resp = rsp1, !.exc = "KeyError"]
              ELSE IF PartDisks[rsp1] = None
              THEN [same EXCEPT !.e = e1, !.resp = rsp1, !.exc = "TypeError"]
              ELSE LET e2 == CorrectUuid(PartDisks[rsp1], r.offs[2], e1)
                       r2 == FindPartDisk(e2)
                       done == [e |-> e2, resp |-> rsp1, fixes |-> fx + 2,
                                unfixed |-> ufx, exc |-> "none"]
                   IN  IF r2.st # "ok" THEN [done EXCEPT !.exc = r2.st]
                       ELSE IF Len(r2.ids) < 1 THEN [done EXCEPT !.exc = "IndexError"]
                       ELSE IF r2.ids[1] # rsp1 THEN [done EXCEPT !.exc = "AssertionError"]
                       ELSE IF Len(r2.ids) < 2 THEN [done EXCEPT !.exc = "IndexError"]
                       ELSE IF r2.ids[2] # PartDisks[rsp1]
                       THEN [done EXCEPT !.exc = "AssertionError"]
                       ELSE done
    ELSE \* lines 264-276
         IF ~KnownDisk(r.ids[1]) THEN [same EXCEPT !.unfixed = ufx + 1]
         ELSE IF r.ids[2] # PartDisks[r.ids[1]]
         THEN IF ~nochange
              THEN [same EXCEPT !.e = CorrectUuid(PartDisks[r.ids[1]], r.offs[2], e),
                                !.fixes = fx + 1]
              ELSE [same EXCEPT !.unfixed = ufx + 1]
         ELSE same

\* the start of one pass of the loop over objs.items(): an object without a
\* description Element is skipped
EnterEntry ==
    /\ lpc = "entry"
    /\ ei <= Len(regd)
    /\ IF regd[ei].desc
       THEN /\ resp' = None
            /\ lpc' = "disk"
            /\ ei' = ei
       ELSE /\ ei' = ei + 1
            /\ UNCHANGED <<resp, lpc>>
    /\ UNCHANGED <<argi, regd, fixes, unfixed, run, calls, written, exit,
                   svars, pvars, ovars, tvars>>

\* one pass of the loop over (disk_key, osdk_key): nothing to do if the key
\* is not in elms
ProcessKey ==
    /\ lpc \in {"disk", "osdk"}
    /\ \E r \in {IF regd[ei][lpc] = None THEN NoRes ELSE FindPartDisk(regd[ei][lpc])} :
       \E ans \in IF Asks(r, resp) THEN Answers ELSE {None} :
       \E s \in {IF regd[ei][lpc] = None
                 THEN [e |-> None, resp |-> resp, fixes |-> fixes, unfixed |-> unfixed,
                       exc |-> "none"]
                 ELSE KeyStep(regd[ei][lpc], r, resp, fixes, unfixed, ans)} :
          /\ regd' = [regd EXCEPT ![ei][lpc] = s.e]
          /\ resp' = s.resp
          /\ fixes' = s.fixes
          /\ unfixed' = s.unfixed
          /\ lpc' = IF s.exc # "none" THEN s.exc
                    ELSE IF lpc = "disk" THEN "osdk" ELSE "entry"
          /\ ei' = IF s.exc = "none" /\ lpc = "osdk" THEN ei + 1 ELSE ei
    /\ UNCHANGED <<argi, run, calls, written, exit, svars, pvars, ovars, tvars>>

\* return fixes, unfixed
ReturnCounts ==
    /\ lpc = "entry"
    /\ ei > Len(regd)
    /\ lpc' = "returned"
    /\ calls' = Append(calls, [fixes |-> fixes, unfixed |-> unfixed, regd |-> regd])
    /\ UNCHANGED <<argi, regd, ei, resp, fixes, unfixed, run, written, exit,
                   svars, pvars, ovars, tvars>>

\* list_and_correct_entries called once more on the tree it left, with the
\* same tables and arguments
CallAgain ==
    /\ lpc = "returned"
    /\ run = 1
    /\ run' = 2
    /\ fixes' = 0
    /\ unfixed' = 0
    /\ ei' = 1
    /\ resp' = None
    /\ lpc' = "entry"
    /\ UNCHANGED <<argi, regd, calls, written, exit, svars, pvars, ovars, tvars>>

\* main, lines 314-319: the call has returned, the hive is written if there
\* were fixes, and the next file is read and its loop begun
NextFile ==
    /\ lpc = "returned"
    /\ argi < Len(args)
    /\ written' = IF fixes # 0 THEN written \cup {argi} ELSE written
    /\ argi' = argi + 1
    /\ regd' = args[argi + 1]
    /\ fixes' = 0
    /\ unfixed' = 0
    /\ ei' = 1
    /\ resp' = None
    /\ lpc' = "entry"
    /\ UNCHANGED <<run, calls, exit, svars, pvars, ovars, tvars>>

\* main, lines 318-320, after the last file: return unfixed
ReturnMain ==
    /\ lpc = "returned"
    /\ argi = Len(args)
    /\ written' = IF fixes # 0 THEN written \cup {argi} ELSE written
    /\ exit' = unfixed
    /\ lpc' = "exited"
    /\ UNCHANGED <<argi, regd, ei, resp, fixes, unfixed, run, calls,
                   svars, pvars, ovars, tvars>>

\* an exception that nothing catches ends the interpreter with status 1
Traceback ==
    /\ lpc \in {"IndexError", "ValueError", "TypeError", "KeyError", "AssertionError"}
    /\ exit = -1
    /\ exit' = 1
    /\ UNCHANGED <<argi, regd, ei, lpc, resp, fixes, unfixed, run, calls, written,
                   svars, pvars, ovars, tvars>>

-----------------------------------------------------------------------------
(* Inputs of the scanner and corrector specification: locator blobs        *)
(* <32 bytes of padding> <window 1> <gap> <window 2> <tail>, and blobs of  *)
(* padding only.                                                           *)

MaxGapWords == 2        \* the gap between the windows is 0..MaxGapWords words of 4 zero bytes
MaxTailWords == 5       \* the tail is 0 or 1 zero bytes, or 1..MaxTailWords words of 4

Zeros(n) == [k \in 1..n |-> 0]

Patterns == {"ok", "z1", "zf", "z4", "z2", "a10", "a11"}

\* 16 distinct bytes above the printable range, changed by the pattern
Window(who, pat) ==
    LET base == CASE who = "P" -> 160 [] who = "D" -> 192 [] who = "T" -> 208
                  [] who = "Q" -> 224 [] who = "E" -> 144 [] OTHER -> 128
    IN
    [k \in 1..16 |->
        CASE pat = "z1" /\ k = 7 -> 0
          [] pat = "zf" /\ k = 1 -> 0
          [] pat = "z4" /\ k = 5 -> 0
          [] pat = "z12" /\ k = 13 -> 0
          [] pat = "z2" /\ k \in {7, 8} -> 0
          [] pat = "a10" /\ k <= 10 -> 64 + k
          [] pat = "a11" /\ k <= 11 -> 64 + k
          [] OTHER -> base + k]

\* ",".join(f"{b:02x}" for b in arr)
JoinHex(arr) ==
    [i \in 1..(3 * Len(arr) - 1) |->
        LET b == arr[((i - 1) \div 3) + 1] IN
        CASE (i - 1) % 3 = 0 -> HexDigits[(b \div 16) + 1]
          [] (i - 1) % 3 = 1 -> HexDigits[(b % 16) + 1]
          [] OTHER -> ","]

HexText(prefix, arr) == prefix \o JoinHex(arr)

TailLens == {0, 1} \cup {4 * k : k \in 1..MaxTailWords}

Blob(p1, g, p2, t) ==
    Zeros(32) \o Window("P", p1) \o Zeros(4 * g) \o Window("D", p2) \o Zeros(t)

PadLens == {1, 31, 47, 48, 49, 64}

\* the standard mixed-endian text of 16 UUID bytes: the first 4 bytes
\* reversed, the next 2 reversed, the next 2 reversed, the last 8 in order
CanonOrder == <<4, 3, 2, 1, 6, 5, 8, 7, 9, 10, 11, 12, 13, 14, 15, 16>>

RECURSIVE CanonFrom(_, _)
CanonFrom(w, k) ==
    IF k > 16 THEN <<>>
    ELSE Fmt02x(w[CanonOrder[k]])
         \o (IF k \in {4, 6, 8, 10} THEN Dash ELSE <<>>)
         \o CanonFrom(w, k + 1)

CanonText(w) == CanonFrom(w, 1)

\* the UUID strings offered to correct_uuid
TargetUuids == {CanonText(Window("T", p)) : p \in {"ok", "z2", "a11"}}

IdleParse ==
    /\ lines = <<>>
    /\ pos = 0
    /\ header = <<>>
    /\ regdict = <<>>
    /\ key = NoKey
    /\ curElem = <<>>
    /\ pstat = "idle"

IdleLoop ==
    /\ PartUUIDs = {}
    /\ PartDisks = <<>>
    /\ nochange = FALSE
    /\ ovwr_list = {}
    /\ args = <<>>
    /\ argi = 0
    /\ regd = <<>>
    /\ ei = 0
    /\ lpc = "idle"
    /\ resp = <<>>
    /\ fixes = 0
    /\ unfixed = 0
    /\ run = 0
    /\ calls = <<>>
    /\ written = {}
    /\ exit = -1

IdleOutput ==
    /\ out = <<>>
    /\ cur = <<>>
    /\ todo = <<>>
    /\ val = <<>>
    /\ wrap = 0
    /\ opc = "idle"

NoPatch == [uuid |-> <<>>, offs |-> 0]

InitScan ==
    /\ \/ \E p1 \in Patterns, p2 \in Patterns, g \in 0..MaxGapWords, t \in TailLens,
             pre \in {PrefixHex, PrefixHex7} :
             elem = HexText(pre, Blob(p1, g, p2, t))
       \/ \E n \in PadLens : elem = HexText(PrefixHex, Zeros(n))
       \/ elem = <<"h","e","x","(","2",")",":">> \o JoinHex(Zeros(48))
    /\ sphase = "input"
    /\ res = NoRes
    /\ oldElem = <<>>
    /\ patch = NoPatch
    /\ IdleParse
    /\ IdleOutput
    /\ IdleLoop

\* ids, offs = find_part_disk(elem)
Scan ==
    /\ sphase = "input"
    /\ res' = FindPartDisk(elem)
    /\ sphase' = "scanned"
    /\ UNCHANGED <<elem, oldElem, patch, pvars, ovars, tvars, lvars>>

\* correct_uuid(uuid, offs, dct) with an offset the scanner produced
Correct ==
    /\ sphase = "scanned"
    /\ res.st = "ok"
    /\ \E k \in 1..Len(res.offs), u \in TargetUuids :
          /\ patch' = [uuid |-> u, offs |-> res.offs[k]]
          /\ elem' = CorrectUuid(u, res.offs[k], elem)
    /\ oldElem' = elem
    /\ sphase' = "corrected"
    /\ UNCHANGED <<res, pvars, ovars, tvars, lvars>>

NextScan == Scan \/ Correct

SpecScan == InitScan /\ [][NextScan]_vars

-----------------------------------------------------------------------------
(* Inputs of the correction loop and of main: the tables, the flags and    *)
(* the boot entries of each hive.                                          *)

MaxEntries == 2         \* the boot entries of a hive
MaxFiles == 2           \* the hive files of a command line

uP == CanonText(Window("P", "ok"))      \* a partition of the host
uQ == CanonText(Window("Q", "ok"))      \* another partition of the host
uX == CanonText(Window("X", "ok"))      \* a partition the host does not have

Topologies ==
    {[p \in {uP, uQ} |-> IF p = uP THEN CanonText(Window("T", pat))
                         ELSE CanonText(Window("E", "ok"))] :
        pat \in {"ok", "z2", "zf", "z12"}}
    \cup {[p \in {uP, uQ} |-> IF p = uP THEN None ELSE CanonText(Window("E", "ok"))],
          [p \in {uP} |-> CanonText(Window("T", "ok"))],
          [p \in {uP, uQ} |-> IF p = uP THEN CanonText(Window("T", "ok"))
                              ELSE CanonText(Window("E", "z2"))]}

\* the tables in which every partition has a disk UUID that scans
PlainTopologies ==
    {[p \in {uP, uQ} |-> IF p = uP THEN CanonText(Window("T", "ok"))
                         ELSE CanonText(Window("E", "ok"))]}

\* a locator blob as the hive holds it: padding, the partition UUID, 8 bytes
\* of padding, the disk UUID, a pad byte
LocPair(pw, dw) == HexText(PrefixHex, Zeros(32) \o pw \o Zeros(8) \o dw \o <<0>>)

\* the same with nonzero bytes in the second word between the UUIDs
LocJunk(pw, dw) ==
    HexText(PrefixHex, Zeros(32) \o pw \o <<0, 0, 0, 0, 9, 9, 9, 9>> \o dw \o <<0>>)

\* one UUID only; padding only, of 47 and of 48 bytes
LocOne(pw) == HexText(PrefixHex, Zeros(32) \o pw \o <<0>>)
LocPad(n) == HexText(PrefixHex, Zeros(n))

Stale == Window("D", "ok")

DiskChoices ==
    {None,
     LocPair(Window("P", "ok"), Window("T", "ok")),
     LocPair(Window("P", "ok"), Stale),
     LocJunk(Window("P", "ok"), Stale),
     LocPair(Window("X", "ok"), Stale),
     LocOne(Window("P", "ok")),
     LocPad(47),
     LocPad(48)}

OsdkChoices ==
    {LocPair(Window("P", "ok"), Stale), LocPair(Window("X", "ok"), Stale)}

NoDesc == [desc |-> FALSE, disk |-> None, osdk |-> None]

FirstEntries ==
    {NoDesc}
    \cup {[desc |-> TRUE, disk |-> d, osdk |-> None] : d \in DiskChoices}
    \cup {[desc |-> TRUE, disk |-> d, osdk |-> o] :
            d \in {None, LocPair(Window("P", "ok"), Stale), LocPair(Window("X", "ok"), Stale),
                   LocOne(Window("P", "ok")), LocPad(48)},
            o \in OsdkChoices}

\* the entries after the first: a known partition on a stale disk
MoreEntries ==
    {[desc |-> TRUE, disk |-> LocPair(Window("P", "ok"), Stale), osdk |-> None]}

RECURSIVE Trees(_)
Trees(n) ==
    IF n = 1 THEN {<<f>> : f \in FirstEntries}
    ELSE {Append(t, m) : t \in Trees(n - 1), m \in MoreEntries}

Hives == UNION {Trees(n) : n \in 1..MaxEntries}

\* the hives of a command line of several files: one boot entry each
FileHives ==
    {<<[desc |-> TRUE, disk |-> d, osdk |-> None]>> :
        d \in {LocPair(Window("P", "ok"), Window("T", "ok")),
               LocPair(Window("P", "ok"), Stale),
               LocPair(Window("X", "ok"), Stale),
               LocOne(Window("P", "ok")),
               LocPad(48)}}

IdleScan ==
    /\ elem = <<>>
    /\ sphase = "idle"
    /\ res = NoRes
    /\ oldElem = <<>>
    /\ patch = NoPatch

\* one hive, on which list_and_correct_entries is called twice
InitLoop ==
    /\ PartUUIDs = {uP, uQ}
    /\ \/ /\ PartDisks \in Topologies
          /\ nochange = FALSE /\ ovwr_list = {}
          /\ \E h \in Trees(1) : args = <<h>> /\ regd = h
       \/ /\ PartDisks \in PlainTopologies
          /\ \/ nochange = FALSE /\ ovwr_list \in {{}, {uP}}
             \/ nochange = TRUE /\ ovwr_list = {}
          /\ \E h \in Hives : args = <<h>> /\ regd = h
    /\ argi = 1
    /\ ei = 1
    /\ lpc = "entry"
    /\ resp = None
    /\ fixes = 0
    /\ unfixed = 0
    /\ run = 1
    /\ calls = <<>>
    /\ written = {}
    /\ exit = -1
    /\ IdleScan
    /\ IdleParse
    /\ IdleOutput

NextLoop == EnterEntry \/ ProcessKey \/ ReturnCounts \/ CallAgain

SpecLoop == InitLoop /\ [][NextLoop]_vars

\* main over the hive files of the command line
InitMain ==
    /\ PartUUIDs = {uP, uQ}
    /\ PartDisks = [p \in {uP, uQ} |-> IF p = uP THEN CanonText(Window("T", "ok"))
                                       ELSE CanonText(Window("E", "ok"))]
    /\ nochange \in BOOLEAN
    /\ ovwr_list = {}
    /\ args \in UNION {[1..n -> FileHives] : n \in 1..MaxFiles}
    /\ regd = args[1]
    /\ argi = 1
    /\ ei = 1
    /\ lpc = "entry"
    /\ resp = None
    /\ fixes = 0
    /\ unfixed = 0
    /\ run = 1
    /\ calls = <<>>
    /\ written = {}
    /\ exit = -1
    /\ IdleScan
    /\ IdleParse
    /\ IdleOutput

NextMain ==
    \/ EnterEntry
    \/ ProcessKey
    \/ ReturnCounts
    \/ NextFile
    \/ ReturnMain
    \/ Traceback

SpecMain == InitMain /\ [][NextMain]_vars

-----------------------------------------------------------------------------
(* Properties of the scanner and the corrector *)

\* the bytes of elem, once it has been scanned
Bytes(e) == ArrFromHexstr(e).arr

\* the UUID heuristic as the data model states it: fewer than 2 zero bytes
\* and at most 10 bytes in the printable range
LooksLikeUuid(w) ==
    /\ Cardinality({k \in 1..Len(w) : w[k] = 0}) < 2
    /\ Cardinality({k \in 1..Len(w) : w[k] >= 32 /\ w[k] <= 122}) <= 10

AllZero(a, lo, hi) == \A k \in lo..hi : a[k] = 0

\* 32 bytes of padding, a window at offset 32, gap bytes of padding, a window
\* at offset 48 + gap, one pad byte; both windows pass the heuristic
PairShape(a, gap) ==
    /\ Len(a) = 65 + gap
    /\ AllZero(a, 1, 32)
    /\ LooksLikeUuid(SubSeq(a, 33, 48))
    /\ AllZero(a, 49, 48 + gap)
    /\ LooksLikeUuid(SubSeq(a, 49 + gap, 64 + gap))
    /\ a[65 + gap] = 0

ScannedOk == sphase = "scanned" /\ ArrFromHexstr(elem).ok

TagLen(e) == Find(e, ":", 0) + 1

\* C3: correct_uuid at a scanned offset o keeps the length of the value and
\* changes only the 47 characters that encode bytes [o, o+16): the tag and
\* every decoded byte outside [o, o+16) are as before.
C3_Locality ==
    sphase = "corrected" =>
        LET o == patch.offs
            first == TagLen(oldElem) + 3 * o + 1
            a == Bytes(oldElem)
            b == Bytes(elem)
        IN  /\ Len(elem) = Len(oldElem)
            /\ \A i \in 1..Len(oldElem) :
                   (i < first \/ i > first + 46) => elem[i] = oldElem[i]
            /\ SubSeq(elem, 1, TagLen(elem)) = SubSeq(oldElem, 1, TagLen(oldElem))
            /\ ArrFromHexstr(elem).ok
            /\ Len(b) = Len(a)
            /\ \A j \in 1..Len(a) : (j <= o \/ j > o + 16) => b[j] = a[j]

C3_Witness ==
    /\ sphase = "corrected"
    /\ patch.offs = 56
    /\ elem # oldElem
    /\ SubSeq(elem, 1, 7) = PrefixHex7

\* C9: with a recognized prefix the scan returns its two lists and never
\* reads hexarr at or beyond its length.
C9_ScanInBounds == ScannedOk => res.st = "ok"

-----------------------------------------------------------------------------
(* Properties of the correction loop and of main *)

\* the 16 bytes that the standard mixed-endian text t of a UUID stands for
UuidWindow(t) ==
    LET h == SelectSeq(t, LAMBDA c : c # "-")
        b == [k \in 1..16 |-> 16 * HexVal(h[2 * k - 1]) + HexVal(h[2 * k])]
    IN  [k \in 1..16 |-> b[CanonOrder[k]]]

\* a UUID without a zero byte that passes the heuristic
SolidUuid(t) ==
    LET w == UuidWindow(t) IN
    /\ \A k \in 1..16 : w[k] # 0
    /\ LooksLikeUuid(w)

SolidTables ==
    /\ \A p \in PartUUIDs : SolidUuid(p)
    /\ \A p \in DOMAIN PartDisks : PartDisks[p] # None => SolidUuid(PartDisks[p])

Raised == lpc \in {"IndexError", "ValueError", "TypeError", "KeyError", "AssertionError"}

\* C4 as stated: the second call of list_and_correct_entries on the tree the
\* first call left, with the same tables and arguments, returns a fix count
\* of zero and modifies no Element.
C4_SecondCallIdle ==
    (run = 2 /\ lpc = "returned")
        => /\ calls[2].fixes = 0
           /\ calls[2].regd = calls[1].regd

\* C4 amended: if the first call left nothing unfixed, no partition is marked
\* for overwrite and the UUIDs of the tables have no zero byte and pass the
\* heuristic, the second call raises nothing, counts no fix and modifies no
\* Element.
C4_FixedHiveIdle ==
    (/\ run = 2
     /\ calls[1].unfixed = 0
     /\ ovwr_list = {}
     /\ SolidTables)
        => /\ ~Raised
           /\ fixes = 0
           /\ regd = calls[1].regd

C4_Witness ==
    /\ run = 2
    /\ lpc = "returned"
    /\ calls[1].unfixed = 0
    /\ calls[1].fixes > 0
    /\ calls[1].regd # args[1]
    /\ ovwr_list = {}
    /\ SolidTables
    /\ calls[2].fixes = 0

\* the pass of the loop that is about to run finds a known partition, not
\* marked for overwrite, on another disk than the tables say
DiskMismatch ==
    /\ lpc \in {"disk", "osdk"}
    /\ regd[ei][lpc] # None
    /\ LET r == FindPartDisk(regd[ei][lpc]) IN
       /\ r.st = "ok"
       /\ Len(r.ids) = 2
       /\ r.ids[1] \in PartUUIDs
       /\ r.ids[1] \notin ovwr_list
       /\ KnownDisk(r.ids[1])
       /\ PartDisks[r.ids[1]] # r.ids[2]
    /\ ~nochange

\* what C5 says of that pass: 1 fix, and only the characters of the
\* disk-UUID window change
DiskPatched ==
    LET e == regd[ei][lpc]
        e2 == regd'[ei][lpc]
        first == TagLen(e) + 3 * FindPartDisk(e).offs[2] + 1
    IN  /\ fixes' = fixes + 1
        /\ unfixed' = unfixed
        /\ ~Raised'
        /\ regd' = [regd EXCEPT ![ei][lpc] = e2]
        /\ Len(e2) = Len(e)
        /\ e2 # e
        /\ \A i \in 1..Len(e) : (i < first \/ i > first + 46) => e2[i] = e[i]

\* and the patched Element scans to [P, T] at the same offsets
Rescanned ==
    LET r == FindPartDisk(regd[ei][lpc])
        r2 == FindPartDisk(regd'[ei][lpc])
    IN  /\ r2.st = "ok"
        /\ r2.ids = <<r.ids[1], PartDisks[r.ids[1]]>>
        /\ r2.offs = r.offs

\* C5 as stated: on a disk mismatch the loop counts exactly 1 fix, patches
\* only the disk-UUID window, and a scan of the patched Element returns
\* [P, T] at the same two offsets.
C5_DiskMismatch == [][DiskMismatch => (DiskPatched /\ Rescanned)]_vars

\* C5 amended: on a disk mismatch the loop counts exactly 1 fix and patches
\* only the disk-UUID window; where the disk UUID T of the tables has no zero
\* byte and passes the heuristic, a scan of the patched Element returns
\* [P, T] at the same two offsets.
C5_SolidDiskMismatch ==
    [][DiskMismatch
          => /\ DiskPatched
             /\ SolidUuid(PartDisks[FindPartDisk(regd[ei][lpc]).ids[1]]) => Rescanned]_vars

C5_Witness ==
    /\ run = 1
    /\ ei = 1
    /\ lpc = "osdk"
    /\ fixes = 1
    /\ unfixed = 0
    /\ regd[1].disk # args[1][1].disk
    /\ FindPartDisk(args[1][1].disk).ids = <<uP, CanonText(Stale)>>
    /\ SolidUuid(PartDisks[uP])
    /\ FindPartDisk(regd[1].disk).ids = <<uP, PartDisks[uP]>>

\* C6: a locator Element with a recognized prefix whose scan does not yield
\* exactly 2 UUIDs adds one to unfixed and nothing to fixes, is left as it
\* was, and the loop goes on with the next key or the next entry.
C6_DetectionFailure ==
    [][(/\ lpc \in {"disk", "osdk"}
        /\ regd[ei][lpc] # None
        /\ ArrFromHexstr(regd[ei][lpc]).ok
        /\ LET r == FindPartDisk(regd[ei][lpc]) IN ~(r.st = "ok" /\ Len(r.ids) = 2))
          => /\ unfixed' = unfixed + 1
             /\ fixes' = fixes
             /\ regd' = regd
             /\ lpc' = IF lpc = "disk" THEN "osdk" ELSE "entry"
             /\ ei' = IF lpc = "disk" THEN ei ELSE ei + 1]_vars

\* C8: the status main returns is nonzero if an entry of any file remained
\* unfixed and zero only if no entry of any file remained unfixed.
C8_ExitStatus ==
    lpc = "exited"
        => ((\E i \in 1..Len(calls) : calls[i].unfixed > 0) <=> exit # 0)

-----------------------------------------------------------------------------
(* Inputs of the parser and serializer specification: dumps as the export  *)
(* writes them, and short sequences of lines in any order.  Line ends are  *)
(* CRLF on both sides and are not modelled.                                *)

MaxLines == 4           \* the length of a dump made of lines in any order

HeaderLine == <<"R", "E", "G">>
BlankLine == <<>>
RootLine == <<"[", BS, "]">>
KeyA == <<"[", BS, BS, "A", "]">>
KeyAB == <<"[", BS, BS, "A", BS, "B", "]">>
KeyC == <<"[", BS, BS, "C", "]">>
NameEq == <<QUOTE, "E", "l", "e", "m", "e", "n", "t", QUOTE, "=">>

Xs(n) == [k \in 1..n |-> "x"]
Quoted(n) == <<QUOTE>> \o Xs(n - 2) \o <<QUOTE>>
Counting(n) == [k \in 1..n |-> k]

\* a hex value as the export wraps it: 21 bytes on the first line, 25 on
\* each continuation line
RECURSIVE ContLines(_)
ContLines(bytes) ==
    IF Len(bytes) <= 25 THEN <<<<" ", " ">> \o JoinHex(bytes)>>
    ELSE <<<<" ", " ">> \o JoinHex(SubSeq(bytes, 1, 25)) \o <<",", BS>>>>
         \o ContLines(SubSeq(bytes, 26, Len(bytes)))

HexLeaf(bytes) ==
    IF Len(bytes) <= 21 THEN <<NameEq \o PrefixHex \o JoinHex(bytes)>>
    ELSE <<NameEq \o PrefixHex \o JoinHex(SubSeq(bytes, 1, 21)) \o <<",", BS>>>>
         \o ContLines(SubSeq(bytes, 22, Len(bytes)))

LeafChoices ==
    {<<>>,
     <<NameEq \o Quoted(3)>>,
     <<NameEq \o <<QUOTE, "a", "=", "b", QUOTE>>>>,
     <<NameEq \o Quoted(66)>>,
     <<NameEq \o Quoted(67)>>,
     <<NameEq \o Quoted(77)>>}
    \cup {HexLeaf(Counting(n)) : n \in {1, 21, 22, 46, 47, 72}}

ExportedDumps ==
    {<<HeaderLine, BlankLine, RootLine, BlankLine, KeyA>> \o l1 \o <<BlankLine>> :
        l1 \in LeafChoices}
    \cup {<<HeaderLine, BlankLine, RootLine, BlankLine, KeyA>> \o l1
          \o <<BlankLine, k2>> \o l2 \o <<BlankLine>> :
            l1 \in LeafChoices, l2 \in LeafChoices, k2 \in {KeyAB, KeyC}}

LineCatalog ==
    {HeaderLine, BlankLine, RootLine, KeyA, NameEq \o Quoted(3), <<" ", " ", "0", "0">>}

AnyOrderDumps == UNION {[1..n -> LineCatalog] : n \in 1..MaxLines}

InitParse ==
    /\ lines \in ExportedDumps \cup AnyOrderDumps
    /\ pos = 0
    /\ header = <<>>
    /\ regdict = <<>>
    /\ key = NoKey
    /\ curElem = <<>>
    /\ pstat = "parsing"
    /\ out = <<>>
    /\ cur = <<>>
    /\ todo = <<>>
    /\ val = <<>>
    /\ wrap = 0
    /\ opc = "wait"
    /\ elem = <<>>
    /\ sphase = "idle"
    /\ res = NoRes
    /\ oldElem = <<>>
    /\ patch = NoPatch
    /\ IdleLoop

NextParse ==
    \/ ParseLine
    \/ ReturnTree
    \/ OutputReg
    \/ OutputRegsub
    \/ OutputElemStep
    \/ OutputDone

SpecParse == InitParse /\ [][NextParse]_vars

-----------------------------------------------------------------------------
(* Properties of the parser and the serializer *)

IsBlank(l) == Len(l) = 0
IsBracketed(l) == Len(l) >= 2 /\ l[1] = "[" /\ l[Len(l)] = "]"
IsKeyLine(l) == IsBracketed(l) /\ l # RootLine
IsLeafLine(l) == Len(l) > 0 /\ l[1] = QUOTE /\ Find(l, "=", 0) > 0
IsContLine(l) == Len(l) > 2 /\ l[1] = " " /\ l[2] = " "
EndsBS(l) == Len(l) > 0 /\ l[Len(l)] = BS

\* the blocks of the dump format: key lines, each followed by its leaf lines,
\* a wrapped leaf by its continuation lines; blank lines between blocks
RECURSIVE Blocks(_, _, _)
Blocks(ls, i, mode) ==
    IF i > Len(ls) THEN mode # "wrapped"
    ELSE LET l == ls[i] IN
         CASE mode = "wrapped" ->
                  /\ IsContLine(l)
                  /\ Blocks(ls, i + 1, IF EndsBS(l) THEN "wrapped" ELSE "inkey")
           [] mode = "inkey" /\ IsLeafLine(l) ->
                  Blocks(ls, i + 1, IF EndsBS(l) THEN "wrapped" ELSE "inkey")
           [] mode \in {"top", "inkey"} /\ IsBlank(l) -> Blocks(ls, i + 1, "top")
           [] mode \in {"top", "inkey"} /\ IsBracketed(l) -> Blocks(ls, i + 1, "inkey")
           [] OTHER -> FALSE

\* an optional header line and a blank line, the root marker, then blocks
RespectsGrammar(ls) ==
    \/ Len(ls) >= 1 /\ ls[1] = RootLine /\ Blocks(ls, 2, "top")
    \/ /\ Len(ls) >= 3
       /\ ~IsBlank(ls[1]) /\ ls[1][1] # "["
       /\ IsBlank(ls[2])
       /\ ls[3] = RootLine
       /\ Blocks(ls, 4, "top")

ParseFailed == pstat \notin {"parsing", "parsed", "idle"}

\* C1: a dump that respects the grammar (here: one written as the export
\* writes it) is parsed without error, and the serialized tree and header
\* are the dump, line for line.
C1_RoundTrip ==
    (lines \in ExportedDumps /\ RespectsGrammar(lines)) =>
        /\ ~ParseFailed
        /\ (opc = "done" => out = lines)

\* a key line is active at line i: a key line before it, no blank line between
KeyActive(ls, i) ==
    \E j \in 1..(i - 1) :
        IsKeyLine(ls[j]) /\ \A m \in (j + 1)..(i - 1) : ~IsBlank(ls[m])

\* a leaf is active at line i: a leaf line before it, with only continuation
\* lines between
LeafActive(ls, i) ==
    \E j \in 1..(i - 1) :
        IsLeafLine(ls[j]) /\ \A m \in (j + 1)..(i - 1) : IsContLine(ls[m])

Malformed(ls) ==
    \E i \in 1..Len(ls) :
        \/ IsLeafLine(ls[i]) /\ ~KeyActive(ls, i)
        \/ IsContLine(ls[i]) /\ ~LeafActive(ls, i)

\* C7: reg_to_dict never returns a tree for a dump in which a leaf line
\* appears while no key line is active, or a continuation line while no leaf
\* is active.
C7_MalformedFails == Malformed(lines) => pstat # "parsed"

\* C10: every pass of the loop of output_elem that goes on to another pass
\* has shortened the remaining value.
C10_ElemShortens ==
    [][(opc = "elem" /\ opc' = "elem") => Len(val') < Len(val)]_vars

\* (not a claim) the dumps of ExportedDumps whose values hold no "=" and no
\* comma-less text longer than the wrap width do make the round trip
RoundTripOfPlainDumps ==
    (/\ opc = "done"
     /\ lines \in ExportedDumps
     /\ \A i \in 1..Len(lines) :
            IsLeafLine(lines[i]) =>
                /\ Len(Split(lines[i], "=")) = 2
                /\ (Len(lines[i]) > 66 => EndsBS(lines[i])))
    => out = lines

====
